---- MODULE Spec2Model ----
(***************************************************************************)
(* Role resolution and the session holder of the license-management        *)
(* dashboard.                                                              *)
(*                                                                         *)
(*   getUserRole  (src/lib/roles.ts)        the role resolver              *)
(*   useUserRole  (src/hooks/useUserRole.ts) the session holder            *)
(*                                                                         *)
(* The three backing tables are state; every query against them may answer *)
(* normally, answer with an error response, or throw.                      *)
(***************************************************************************)
EXTENDS Integers, FiniteSets, Sequences, Bags, TLC

\* ---------------------------------------------------------------- bounds
\* rows the product_license_assignments table holds at most
MaxRows == 2
\* resolutions one instance of the hook starts at most in a behaviour
MaxFetch == 2
\* seats of a license, rows of product_license_assignments and reloads in
\* flight in the LicenseAssignments specification
MaxSeats == 2
MaxAssigned == 2
MaxLoads == 1

\* ------------------------------------------------------------ value sets
\* JavaScript null / undefined: an absent value
Null == "null"

Users == {"u1", "u2"}
AccessLevels == {"admin", "manager", "user"}
Licenses == {"L1", "L2"}
Customers == {"org-7", "org-9"}

\* what a store query can do besides answering from the data:
\* answer with an error response, or throw
Failures == {"ok", "error", "throw"}
FailurePatterns == [q1 : Failures, q2 : Failures, q3 : Failures]
NoFailure == [q1 |-> "ok", q2 |-> "ok", q3 |-> "ok"]

\* a row of product_license_assignments
AssignmentRows ==
    [user_id : Users, access_level : AccessLevels, license_id : Licenses \cup {Null}]

RECURSIVE SubsetsUpTo(_, _)
SubsetsUpTo(S, k) ==
    IF k = 0 THEN {{}}
    ELSE LET P == SubsetsUpTo(S, k - 1)
         IN  P \cup {p \cup {x} : p \in P, x \in S}

VARIABLES
    user_roles,                   \* user ids holding a row with role = 'admin'
    product_license_assignments,  \* set of assignment rows
    customer_product_licenses,    \* license id -> customer_id, Null: no such row
    customers,                    \* customer id -> is_active
    user,                         \* useAuth().user?.id, Null when signed out
    userRole,                     \* useState<UserRole | null>
    loading,                      \* useState(true)
    error,                        \* useState<string | null>
    actualUserRole,               \* useState<UserRole | null>
    effectPending,                \* the effect on [fetchUserRole] has yet to run
    fetches,                      \* the resolutions fetchUserRole started, in order
    debugRole,                    \* DebugProvider: useState<UserRole | null>
    refetched,                    \* history: the last fetchUserRole call was a
                                  \* refetch made while a debug role was set
    call,                         \* the last direct call of getUserRole
    prev,                         \* the direct call of getUserRole before it
    toggle,                       \* DebugRoleToggle: its variant, customers, and
                                  \* DebugProvider's selectedCustomer
    activeTab,                    \* Index: useState('dashboard')
    dashboard,                    \* ClientDashboard: loading, currentLevel, requests
    seats,                        \* customer_product_licenses.seats, by license id
    admins                        \* LicenseAssignments: the state of each instance

vars == <<user_roles, product_license_assignments, customer_product_licenses, customers,
          user, userRole, loading, error, actualUserRole, effectPending,
          fetches, debugRole, refetched, call, prev,
          toggle, activeTab, dashboard, seats, admins>>

stores == <<user_roles, product_license_assignments, customer_product_licenses, customers>>
holder == <<user, userRole, loading, error, actualUserRole, effectPending, fetches,
            refetched>>
calls == <<call, prev>>
pages == <<toggle, activeTab, dashboard, seats, admins>>

\* ------------------------------------------------------------ descriptors
\* interface UserRole; customer_id = Null when absent
Descriptor(role, source, rayn, client, customer) ==
    [role |-> role, source |-> source, isRaynAdmin |-> rayn,
     isClientAdmin |-> client, customer_id |-> customer]

\* a UserRole | null that is null: every field read through ?. is undefined
NullRole == Descriptor(Null, Null, FALSE, FALSE, Null)

\* faulty variant: the RAYN admin descriptor carries both admin flags
RaynAdminRole_BothFlags == Descriptor("admin", "user_roles", TRUE, TRUE, Null)

\* the literal returned for a user_roles admin (lines 36-41)
RaynAdminRole == Descriptor("admin", "user_roles", TRUE, FALSE, Null)

\* faulty variant: the default is taken for the lowest licensed tier
DefaultRole_Licensed == Descriptor("user", "product_license_assignments", FALSE, FALSE, Null)

\* faulty variant: the default descriptor carries the client admin flag
DefaultRole_ClientFlag == Descriptor("user", "default", FALSE, TRUE, Null)

\* the literal returned by default and by the catch block (lines 84-89, 94-99)
DefaultRole == Descriptor("user", "default", FALSE, FALSE, Null)

\* ---------------------------------------------------------------- queries
\* the answer of a supabase query: { data, error }, or an exception
Answer(data, err) == [data |-> data, error |-> err, thrown |-> FALSE]
Thrown(data) == [data |-> data, error |-> Null, thrown |-> TRUE]

NoUserRolesRow == [role |-> Null]
NoAssignmentRow == [access_level |-> Null, license_id |-> Null]
NoLicenseRow == [customer_id |-> Null]

\* faulty variant: every failure of the query is thrown (throwOnError)
QueryUserRoles_ThrowOnError(userId, fail) ==
    IF fail \in {"throw", "error"} THEN Thrown(NoUserRolesRow)
    ELSE IF userId \in user_roles THEN Answer([role |-> "admin"], Null)
    ELSE Answer(NoUserRolesRow, "PGRST116")

\* from('user_roles').select('role').eq('user_id', userId).eq('role', 'admin').single()
QueryUserRoles(userId, fail) ==
    IF fail = "throw" THEN Thrown(NoUserRolesRow)
    ELSE IF fail = "error" THEN Answer(NoUserRolesRow, "500")
    ELSE IF userId \in user_roles THEN Answer([role |-> "admin"], Null)
    ELSE Answer(NoUserRolesRow, "PGRST116")

\* the rows .eq('user_id', userId).limit(1) may deliver: the query has no
\* ORDER BY, so any row of the user can be the first found
FirstFound(userId) ==
    LET mine == {r \in product_license_assignments : r.user_id = userId}
    IN  IF mine = {} THEN {NoAssignmentRow}
        ELSE {[access_level |-> r.access_level, license_id |-> r.license_id] : r \in mine}

\* from('product_license_assignments').select('access_level, license_id')
\*   .eq('user_id', userId).limit(1).single(), first being the row found
QueryAssignments(userId, fail, first) ==
    IF fail = "throw" THEN Thrown(NoAssignmentRow)
    ELSE IF fail = "error" THEN Answer(NoAssignmentRow, "500")
    ELSE IF first = NoAssignmentRow THEN Answer(NoAssignmentRow, "PGRST116")
    ELSE Answer(first, Null)

\* faulty variant: every failure of the lookup, no row included, is thrown
QueryLicense_ThrowOnError(licenseId, fail) ==
    IF fail \in {"throw", "error"} THEN Thrown(NoLicenseRow)
    ELSE IF licenseId \in Licenses /\ customer_product_licenses[licenseId] # Null
         THEN Answer([customer_id |-> customer_product_licenses[licenseId]], Null)
    ELSE Thrown(NoLicenseRow)

\* faulty variant: the .eq('id', licenseId) filter is lost, the first license row answers
QueryLicense_NoFilter(licenseId, fail) ==
    IF fail = "throw" THEN Thrown(NoLicenseRow)
    ELSE IF fail = "error" THEN Answer(NoLicenseRow, "500")
    ELSE IF customer_product_licenses["L1"] # Null
         THEN Answer([customer_id |-> customer_product_licenses["L1"]], Null)
    ELSE Answer(NoLicenseRow, "PGRST116")

\* from('customer_product_licenses').select('customer_id').eq('id', licenseId).single()
QueryLicense(licenseId, fail) ==
    IF fail = "throw" THEN Thrown(NoLicenseRow)
    ELSE IF fail = "error" THEN Answer(NoLicenseRow, "500")
    ELSE IF licenseId \in Licenses /\ customer_product_licenses[licenseId] # Null
         THEN Answer([customer_id |-> customer_product_licenses[licenseId]], Null)
    ELSE Answer(NoLicenseRow, "PGRST116")

\* ------------------------------------------------------------ getUserRole
\* the outcome of a call: a returned descriptor or an exception, with the
\* tables the call queried
Returned(value, queried) == [threw |-> FALSE, value |-> value, queried |-> queried]
Threw(queried) == [threw |-> TRUE, value |-> NullRole, queried |-> queried]

\* faulty variant: no catch block, the exception leaves getUserRole
Caught_Rethrow(queried) == Threw(queried)

\* faulty variant: the catch block fails open
Caught_FailOpen(queried) == Returned(RaynAdminRole, queried)

\* the catch block of getUserRole
Caught(queried) == Returned(DefaultRole, queried)

\* faulty variant: the admin flag of an assignment is taken for the RAYN flag
AssignmentRole_RaynFlag(access_level, customer_id) ==
    Descriptor(access_level, "product_license_assignments",
               access_level = "admin", FALSE, customer_id)

\* the descriptor built from a license assignment (lines 74-80)
AssignmentRole(access_level, customer_id) ==
    Descriptor(access_level, "product_license_assignments",
               FALSE, access_level = "admin", customer_id)

\* faulty variant: the license assignments are looked up before user_roles
GetUserRole_LicenseFirst(userId, fail, first) ==
    LET q1 == QueryUserRoles(userId, fail.q1)
        q2 == QueryAssignments(userId, fail.q2, first)
        q3 == QueryLicense(q2.data.license_id, fail.q3)
        t1 == <<"product_license_assignments">>
        t2 == <<"product_license_assignments", "customer_product_licenses">>
        t3 == <<"product_license_assignments", "user_roles">>
        access_level == q2.data.access_level
    IN  IF q2.thrown THEN Caught(t1)
        ELSE IF access_level # Null
             THEN IF q2.data.license_id # Null
                  THEN IF q3.thrown THEN Caught(t2)
                       ELSE Returned(AssignmentRole(access_level, q3.data.customer_id), t2)
                  ELSE Returned(AssignmentRole(access_level, Null), t1)
        ELSE IF q1.thrown THEN Caught(t3)
        ELSE IF q1.data.role = "admin" THEN Returned(RaynAdminRole, t3)
        ELSE Returned(DefaultRole, t3)

GetUserRole(userId, fail, first) ==
    LET q1 == QueryUserRoles(userId, fail.q1)
        q2 == QueryAssignments(userId, fail.q2, first)
        q3 == QueryLicense(q2.data.license_id, fail.q3)
        t1 == <<"user_roles">>
        t2 == <<"user_roles", "product_license_assignments">>
        t3 == <<"user_roles", "product_license_assignments", "customer_product_licenses">>
        access_level == q2.data.access_level
    IN  IF q1.thrown THEN Caught(t1)
        ELSE IF q1.data.role = "admin" THEN Returned(RaynAdminRole, t1)
        ELSE IF q2.thrown THEN Caught(t2)
        ELSE IF access_level # Null
             THEN IF q2.data.license_id # Null
                  THEN IF q3.thrown THEN Caught(t3)
                       ELSE Returned(AssignmentRole(access_level, q3.data.customer_id), t3)
                  ELSE Returned(AssignmentRole(access_level, Null), t2)
        ELSE Returned(DefaultRole, t2)

\* every way a call of getUserRole(userId) can end on the present stores
Outcomes(userId) ==
    {[threw |-> GetUserRole(userId, fail, first).threw,
      value |-> GetUserRole(userId, fail, first).value] :
        fail \in FailurePatterns, first \in FirstFound(userId)}

\* ------------------------------------------------- the legacy resolver
\* the legacy UserRole: role and source only
LegacyRole(role, source) == [role |-> role, source |-> source]

\* faulty variant: the user_roles step is left out
LegacyGetUserRole_SkipsUserRoles(userId, fail, first) ==
    LET q2 == QueryAssignments(userId, fail.q2, first)
    IN  IF q2.thrown THEN LegacyRole("user", "default")
        ELSE IF q2.data.access_level # Null
             THEN LegacyRole(q2.data.access_level, "product_license_assignments")
        ELSE LegacyRole("user", "default")

\* the legacy getUserRole: the same two queries, no organization lookup
LegacyGetUserRole(userId, fail, first) ==
    LET q1 == QueryUserRoles(userId, fail.q1)
        q2 == QueryAssignments(userId, fail.q2, first)
    IN  IF q1.thrown THEN LegacyRole("user", "default")
        ELSE IF q1.data.role = "admin" THEN LegacyRole("admin", "user_roles")
        ELSE IF q2.thrown THEN LegacyRole("user", "default")
        ELSE IF q2.data.access_level # Null
             THEN LegacyRole(q2.data.access_level, "product_license_assignments")
        ELSE LegacyRole("user", "default")

\* the legacy isAdmin(userId): hasRole(userId, 'admin')
LegacyIsAdmin(userId, fail, first) == LegacyGetUserRole(userId, fail, first).role = "admin"

\* the newer isAdmin(userId): isRaynAdmin || isClientAdmin of getUserRole
IsAdminOf(userId, fail, first) ==
    LET userRole_ == GetUserRole(userId, fail, first).value
    IN  userRole_.isRaynAdmin \/ userRole_.isClientAdmin

\* ------------------------------------------------------------------ Init
NoCall == [userId |-> Null, fail |-> NoFailure, first |-> NoAssignmentRow,
           ret |-> Returned(NullRole, <<>>)]

\* the customers table: org-9 is an active organization, org-7 one that was
\* deactivated (is_active = false)
InitCustomers == customers = [c \in Customers |-> c = "org-9"]

InitStores ==
    /\ user_roles \in SUBSET Users
    /\ product_license_assignments \in SubsetsUpTo(AssignmentRows, MaxRows)
    /\ customer_product_licenses \in [Licenses -> Customers \cup {Null}]
    /\ InitCustomers

InitHolder ==
    /\ user = Null
    /\ userRole = NullRole
    /\ loading = TRUE
    /\ error = Null
    /\ actualUserRole = NullRole
    /\ effectPending = TRUE
    /\ fetches = <<>>
    /\ refetched = FALSE

\* the stores the sessions of the hook run against: u1 assigned license L1 as
\* 'admin', and either u1 a RAYN admin too and u2 assigned L1 as 'manager', or
\* no RAYN admin and u2 assigned L1 as 'user'; L1 owned by org-9, no row L2
SessionStores ==
    /\ \E rayn \in BOOLEAN :
           /\ user_roles = IF rayn THEN {"u1"} ELSE {}
           /\ product_license_assignments =
                  {[user_id |-> "u1", access_level |-> "admin", license_id |-> "L1"],
                   [user_id |-> "u2", access_level |-> IF rayn THEN "manager" ELSE "user",
                    license_id |-> "L1"]}
    /\ customer_product_licenses = [l \in Licenses |-> IF l = "L1" THEN "org-9" ELSE Null]
    /\ InitCustomers

\* DebugProvider: useState<UserRole | null>(null)
InitDebug == debugRole = NullRole

\* the DebugRoleToggle without organization select; nothing selected
PlainToggle == [variant |-> "plain", fetching |-> FALSE, customers |-> <<>>,
                selectedCustomer |-> Null]

\* ClientDashboard not mounted
NoDashboard == [mounted |-> FALSE, loading |-> TRUE, effectPending |-> FALSE,
                level |-> 2, locationId |-> Null, requests |-> <<>>, loaded |-> {}]

\* a LicenseAssignments instance not mounted
NoAdmin == [mounted |-> FALSE, selectedCustomer |-> Null, customerLicenses |-> <<>>,
            loads |-> 0, toast |-> Null]

\* the pages as the session specifications keep them: Index on its dashboard
\* tab, no ClientDashboard and no LicenseAssignments mounted
InitPages ==
    /\ toggle = PlainToggle
    /\ activeTab = "dashboard"
    /\ dashboard = NoDashboard
    /\ seats = [l \in Licenses |-> 0]
    /\ admins = [a \in {"a1", "a2"} |-> NoAdmin]

Init ==
    /\ SessionStores
    /\ InitHolder
    /\ InitDebug
    /\ InitPages
    /\ call = NoCall
    /\ prev = NoCall

ResolverInit ==
    /\ InitStores
    /\ InitHolder
    /\ InitDebug
    /\ InitPages
    /\ call = NoCall
    /\ prev = NoCall

\* ------------------------------------------------- direct resolver calls
\* hasRole / isRaynAdmin / isClientAdmin / isAdmin: await getUserRole(userId)
\* only a query the call issues can fail
Issued(fail, ret) ==
    /\ Len(ret.queried) < 2 => fail.q2 = "ok"
    /\ Len(ret.queried) < 3 => fail.q3 = "ok"

CallGetUserRole(userId, fail, first) ==
    /\ call = NoCall
    /\ Issued(fail, GetUserRole(userId, fail, first))
    /\ call' = [userId |-> userId, fail |-> fail, first |-> first,
                ret |-> GetUserRole(userId, fail, first)]
    /\ UNCHANGED <<stores, holder, debugRole, prev, pages>>

Resolve ==
    \E userId \in Users, fail \in FailurePatterns :
        \E first \in FirstFound(userId) : CallGetUserRole(userId, fail, first)

\* getUserRole(userId) called a second time for the same user, the stores
\* unchanged and no query failing in either call
CallAgain(first) ==
    /\ call # NoCall
    /\ call.fail = NoFailure
    /\ prev = NoCall
    /\ prev' = call
    /\ call' = [userId |-> call.userId, fail |-> NoFailure, first |-> first,
                ret |-> GetUserRole(call.userId, NoFailure, first)]
    /\ UNCHANGED <<stores, holder, debugRole, pages>>

ResolveAgain == \E first \in FirstFound(call.userId) : CallAgain(first)

ResolverNext ==
    \/ Resolve
    \/ ResolveAgain

ResolverSpec == ResolverInit /\ [][ResolverNext]_vars

\* --------------------------------------------------------- session holder
\* a resolution in flight for the current user
Started == [userId |-> user, settled |-> FALSE, result |-> NullRole]

\* faulty variant: the held descriptor is dropped when a resolution starts
FetchStart_DropsRole ==
    IF user = Null
    THEN /\ userRole' = NullRole
         /\ loading' = FALSE
         /\ UNCHANGED <<error, fetches>>
    ELSE /\ Len(fetches) < MaxFetch
         /\ loading' = TRUE
         /\ error' = Null
         /\ fetches' = Append(fetches, Started)
         /\ userRole' = NullRole

\* fetchUserRole up to its await: lines 15-24
FetchStart ==
    IF user = Null
    THEN /\ userRole' = NullRole
         /\ loading' = FALSE
         /\ UNCHANGED <<error, fetches>>
    ELSE /\ Len(fetches) < MaxFetch
         /\ loading' = TRUE
         /\ error' = Null
         /\ fetches' = Append(fetches, Started)
         /\ UNCHANGED userRole

\* the authentication provider reports another user, or none
AuthChange(u) ==
    /\ ~effectPending
    /\ u # user
    /\ user' = u
    /\ effectPending' = TRUE
    /\ UNCHANGED <<stores, userRole, loading, error, actualUserRole, fetches, debugRole,
                   refetched, calls, pages>>

\* useEffect(() => { fetchUserRole(); }, [fetchUserRole])
RunEffect ==
    /\ effectPending
    /\ effectPending' = FALSE
    /\ FetchStart
    /\ refetched' = FALSE
    /\ UNCHANGED <<stores, user, actualUserRole, debugRole, calls, pages>>

\* refetch: fetchUserRole called from the UI
Refetch ==
    /\ ~effectPending
    /\ FetchStart
    /\ refetched' = (debugRole # NullRole)
    /\ UNCHANGED <<stores, user, actualUserRole, effectPending, debugRole, calls, pages>>

\* fetchUserRole from its await on: getUserRole answers resolution i and the
\* rest of the try block, the catch and the finally run (lines 24-32)
FetchSettle(i, ret) ==
    /\ ~fetches[i].settled
    /\     /\ IF ret.threw
              THEN /\ error' = "Failed to fetch user role"
                   /\ UNCHANGED <<actualUserRole, userRole>>
              ELSE /\ actualUserRole' = ret.value
                   /\ userRole' = ret.value
                   /\ UNCHANGED error
           /\ fetches' = [fetches EXCEPT ![i] = [@ EXCEPT !.settled = TRUE, !.result = ret.value]]
    /\ loading' = FALSE
    /\ UNCHANGED <<stores, user, effectPending, debugRole, refetched, calls, pages>>

\* the authentication provider signs a user in or out
Auth == \E u \in Users \cup {Null} : AuthChange(u)

\* the getUserRole call of some resolution in flight answers
Settle ==
    \E i \in DOMAIN fetches :
        \E ret \in Outcomes(fetches[i].userId) : FetchSettle(i, ret)

\* ------------------------------------------------------- debug override
\* DEBUG_ROLES of DebugRoleToggle
DEBUG_ROLES ==
    [label \in {"Client Admin", "Manager", "User"} |->
        CASE label = "Client Admin" ->
                Descriptor("admin", "product_license_assignments", FALSE, TRUE,
                           "debug-customer-id")
          [] label = "Manager" ->
                Descriptor("manager", "product_license_assignments", FALSE, FALSE,
                           "debug-customer-id")
          [] label = "User" ->
                Descriptor("user", "default", FALSE, FALSE, Null)]

\* DebugRoleToggle.handleRoleChange(value)
HandleRoleChange(value) ==
    /\ debugRole' = IF value = "none" THEN NullRole
                    ELSE IF value \in DOMAIN DEBUG_ROLES THEN DEBUG_ROLES[value]
                    ELSE debugRole
    /\ debugRole' # debugRole
    /\ UNCHANGED <<stores, holder, calls, pages>>

\* another entry of the "Preview as..." select is chosen
Preview == \E value \in {"none"} \cup DOMAIN DEBUG_ROLES : HandleRoleChange(value)

\* DebugProvider: isDebugMode: debugRole !== null
isDebugMode == debugRole # NullRole

\* faulty variant: the debug role is not looked at
effectiveRole_Resolved == userRole

\* useUserRole: effectiveRole = isDebugMode ? debugRole : userRole
effectiveRole == IF isDebugMode THEN debugRole ELSE userRole

\* the capability flags useUserRole returns (lines 86-90)
isAdmin == effectiveRole.isRaynAdmin \/ effectiveRole.isClientAdmin
isRaynAdmin == effectiveRole.isRaynAdmin
isClientAdmin == effectiveRole.isClientAdmin
isManager == effectiveRole.role = "manager"
isUser == effectiveRole.role = "user"

\* RoleGuard destructures isModerator, which useUserRole does not return: the
\* value is undefined
isModerator == FALSE

\* ----------------------------- DebugRoleToggle with organization select
\* faulty variant: the 'Client Admin' entry carries the RAYN admin flag
DEBUG_ROLES_Customer_Rayn ==
    [label \in {"Client Admin", "Moderator", "User"} |->
        CASE label = "Client Admin" ->
                Descriptor("admin", "product_license_assignments", TRUE, TRUE,
                           "debug-customer-id")
          [] label = "Moderator" ->
                Descriptor("moderator", "product_license_assignments", FALSE, FALSE,
                           "debug-customer-id")
          [] label = "User" ->
                Descriptor("user", "default", FALSE, FALSE, "debug-customer-id")]

\* DEBUG_ROLES of the DebugRoleToggle that selects an organization
DEBUG_ROLES_Customer ==
    [label \in {"Client Admin", "Moderator", "User"} |->
        CASE label = "Client Admin" ->
                Descriptor("admin", "product_license_assignments", FALSE, TRUE,
                           "debug-customer-id")
          [] label = "Moderator" ->
                Descriptor("moderator", "product_license_assignments", FALSE, FALSE,
                           "debug-customer-id")
          [] label = "User" ->
                Descriptor("user", "default", FALSE, FALSE, "debug-customer-id")]

IsActive(c) == customers[c]

\* from('customers').eq('is_active', true).order('customer_name')
ActiveCustomers == SelectSeq(<<"org-7", "org-9">>, IsActive)

\* customers[0]?.id
FirstCustomer == IF toggle.customers = <<>> THEN Null ELSE Head(toggle.customers)

\* role.isClientAdmin || role.role === 'moderator' || role.role === 'user'
RequiresCustomer(role) == role.isClientAdmin \/ role.role \in {"moderator", "user"}

\* the value the role select shows
SelectedLabel ==
    IF isDebugMode /\ \E label \in DOMAIN DEBUG_ROLES_Customer :
                           DEBUG_ROLES_Customer[label].role = debugRole.role
    THEN CHOOSE label \in DOMAIN DEBUG_ROLES_Customer :
             DEBUG_ROLES_Customer[label].role = debugRole.role
    ELSE "none"

\* the fetchCustomers call of the mount effect answers, or fails
FetchCustomers(ok) ==
    /\ toggle.variant = "customers"
    /\ toggle.fetching
    /\ toggle' = [toggle EXCEPT !.fetching = FALSE,
                                !.customers = IF ok THEN ActiveCustomers ELSE @]
    /\ UNCHANGED <<stores, holder, debugRole, calls, activeTab, dashboard, seats, admins>>

CustomersAnswer == \E ok \in BOOLEAN : FetchCustomers(ok)

\* handleRoleChange(value) of the toggle that selects an organization
HandleRoleChangeCustomer(value) ==
    /\ toggle.variant = "customers"
    /\ value # SelectedLabel
    /\ IF value = "none"
       THEN /\ debugRole' = NullRole
            /\ toggle' = [toggle EXCEPT !.selectedCustomer = Null]
       ELSE LET selectedRole == DEBUG_ROLES_Customer[value]
                customer_id == IF RequiresCustomer(selectedRole)
                               THEN IF toggle.selectedCustomer # Null
                                    THEN toggle.selectedCustomer ELSE FirstCustomer
                               ELSE Null
            IN  /\ debugRole' = [selectedRole EXCEPT !.customer_id = customer_id]
                /\ toggle' = IF toggle.selectedCustomer = Null /\ RequiresCustomer(selectedRole)
                             THEN [toggle EXCEPT !.selectedCustomer = FirstCustomer]
                             ELSE toggle
    /\ UNCHANGED <<stores, holder, calls, activeTab, dashboard, seats, admins>>

PreviewCustomer ==
    \E value \in {"none"} \cup DOMAIN DEBUG_ROLES_Customer : HandleRoleChangeCustomer(value)

\* handleCustomerChange(customerId): the organization select is rendered for a
\* debug role that requires a customer and enabled once the customers are in
HandleCustomerChange(customerId) ==
    /\ toggle.variant = "customers"
    /\ isDebugMode
    /\ RequiresCustomer(debugRole)
    /\ ~toggle.fetching
    /\ \E n \in DOMAIN toggle.customers : toggle.customers[n] = customerId
    /\ customerId # toggle.selectedCustomer
    /\ toggle' = [toggle EXCEPT !.selectedCustomer = customerId]
    /\ debugRole' = [debugRole EXCEPT !.customer_id = customerId]
    /\ UNCHANGED <<stores, holder, calls, activeTab, dashboard, seats, admins>>

SelectCustomer == \E customerId \in Customers : HandleCustomerChange(customerId)

\* the toggle without organization select is used
PreviewPlain == toggle.variant = "plain" /\ Preview

\* the hook at rest on the descriptor resolved for the signed-in user
RestingHolder ==
    /\ user \in Users
    /\ userRole \in {outcome.value : outcome \in Outcomes(user)}
    /\ actualUserRole = userRole
    /\ loading = FALSE
    /\ error = Null
    /\ effectPending = FALSE
    /\ fetches = <<[userId |-> user, settled |-> TRUE, result |-> userRole]>>
    /\ refetched = FALSE

\* either toggle is mounted, over any customers table, beside a hook at rest
ToggleInit ==
    /\ user_roles = {"u1"}
    /\ product_license_assignments =
           {[user_id |-> "u1", access_level |-> "admin", license_id |-> "L1"],
            [user_id |-> "u2", access_level |-> "manager", license_id |-> "L1"]}
    /\ customer_product_licenses = [l \in Licenses |-> IF l = "L1" THEN "org-9" ELSE Null]
    /\ customers \in [Customers -> BOOLEAN]
    /\ RestingHolder
    /\ InitDebug
    /\ call = NoCall
    /\ prev = NoCall
    /\ toggle \in {PlainToggle,
                    [variant |-> "customers", fetching |-> TRUE, customers |-> <<>>,
                     selectedCustomer |-> Null]}
    /\ activeTab = "dashboard"
    /\ dashboard = NoDashboard
    /\ seats = [l \in Licenses |-> 0]
    /\ admins = [a \in {"a1", "a2"} |-> NoAdmin]

ToggleNext ==
    \/ PreviewPlain
    \/ CustomersAnswer
    \/ PreviewCustomer
    \/ SelectCustomer

ToggleSpec == ToggleInit /\ [][ToggleNext]_vars

\* ----------------------------------------------------- Index and its tabs
\* DashboardLayout: the License Assignments button is rendered
TabShown == isRaynAdmin \/ isClientAdmin

\* faulty variant: the component makes no access check
LicenseAssignments_NoCheck == IF loading THEN "loading" ELSE "content"

\* what LicenseAssignments renders: the loading text, 'Access Restricted' or
\* its management content
LicenseAssignments ==
    IF loading THEN "loading"
    ELSE IF ~isRaynAdmin /\ ~isClientAdmin THEN "restricted"
    ELSE "content"

\* Index.renderContent
renderContent ==
    IF activeTab = "license-assignments" THEN LicenseAssignments
    ELSE IF isRaynAdmin THEN "RAYNDashboard"
    ELSE IF isClientAdmin THEN "ClientDashboard"
    ELSE IF isManager THEN "LicenseInformation, StaffLicenseSummary"
    ELSE "LicenseInformation"

\* onTabChange(tab): a button of the navigation is clicked; Index renders the
\* layout for a signed-in user only
OnTabChange(tab) ==
    /\ user # Null
    /\ tab = "license-assignments" => TabShown
    /\ tab # activeTab
    /\ activeTab' = tab
    /\ UNCHANGED <<stores, holder, debugRole, calls, toggle, dashboard, seats, admins>>

SelectTab == \E tab \in {"dashboard", "license-assignments"} : OnTabChange(tab)

\* the sessions of the hook with the navigation of Index, on the stores
\* without a RAYN admin
PageInit == Init /\ user_roles = {}

PageNext ==
    \/ Auth
    \/ RunEffect
    \/ Refetch
    \/ Settle
    \/ Preview
    \/ SelectTab

PageSpec == PageInit /\ [][PageNext]_vars

\* ------------------------------------------------------- ClientDashboard
\* the ids of the locations fetchLocationData sets
Locations == {"1", "2", "3", "4"}

\* ClientDashboard mounted: useState initial values, the effect yet to run
MountedDashboard == [mounted |-> TRUE, loading |-> TRUE, effectPending |-> TRUE,
                     level |-> 2, locationId |-> Null, requests |-> <<>>,
                     loaded |-> {}]

\* useEffect(() => { if (userRole?.customer_id) fetchDashboardData(); },
\* [currentLevel, userRole]) with fetchDashboardData up to its await
DashEffect ==
    /\ dashboard.mounted
    /\ dashboard.effectPending
    /\ dashboard' =
           IF effectiveRole.customer_id # Null
           THEN [dashboard EXCEPT !.effectPending = FALSE, !.loading = TRUE,
                                  !.requests = Append(@, dashboard.level)]
           ELSE [dashboard EXCEPT !.effectPending = FALSE]
    /\ UNCHANGED <<stores, holder, debugRole, calls, toggle, activeTab, seats, admins>>

\* fetchDashboardData from its await on: the fetch of the level answers (ok)
\* or fails, and the finally block runs
DashSettle(ok) ==
    /\ dashboard.mounted
    /\ dashboard.requests # <<>>
    /\ dashboard' = [dashboard EXCEPT
           !.requests = Tail(@),
           !.loaded = IF ok THEN @ \cup {Head(dashboard.requests)} ELSE @,
           !.loading = FALSE]
    /\ UNCHANGED <<stores, holder, debugRole, calls, toggle, activeTab, seats, admins>>

DashAnswer == \E ok \in BOOLEAN : DashSettle(ok)

\* setCurrentLevel(level): the dashboard is rendered once loading is false
SetCurrentLevel(level, locationId) ==
    /\ dashboard.mounted
    /\ ~dashboard.loading
    /\ dashboard' = [dashboard EXCEPT !.level = level, !.locationId = locationId,
                                      !.effectPending = TRUE]
    /\ UNCHANGED <<stores, holder, debugRole, calls, toggle, activeTab, seats, admins>>

\* navigateToLevel from the overview to the locations, and from a location
\* listed to its departments
NavigateToLevel ==
    \/ dashboard.level = 2 /\ SetCurrentLevel(3, Null)
    \/ /\ dashboard.level = 3
       /\ 3 \in dashboard.loaded
       /\ \E locationId \in Locations : SetCurrentLevel(4, locationId)

\* goBack
GoBack ==
    \/ dashboard.level = 3 /\ SetCurrentLevel(2, Null)
    \/ dashboard.level = 4 /\ SetCurrentLevel(3, Null)

\* Index renders ClientDashboard for u1, resolved to a client admin on any
\* ownership of license L1
DashboardInit ==
    /\ user_roles = {}
    /\ product_license_assignments =
           {[user_id |-> "u1", access_level |-> "admin", license_id |-> "L1"]}
    /\ customer_product_licenses \in [Licenses -> Customers \cup {Null}]
    /\ InitCustomers
    /\ RestingHolder
    /\ user = "u1"
    /\ userRole.isClientAdmin
    /\ InitDebug
    /\ call = NoCall
    /\ prev = NoCall
    /\ toggle = PlainToggle
    /\ activeTab = "dashboard"
    /\ dashboard = MountedDashboard
    /\ seats = [l \in Licenses |-> 0]
    /\ admins = [a \in {"a1", "a2"} |-> NoAdmin]

DashboardNext ==
    \/ DashEffect
    \/ DashAnswer
    \/ NavigateToLevel
    \/ GoBack

\* the store queries answer and React runs the pending effect
DashboardSpec ==
    /\ DashboardInit
    /\ [][DashboardNext]_vars
    /\ WF_vars(DashEffect)
    /\ WF_vars(DashAnswer)

\* ---------------------------------------------------- LicenseAssignments
\* two administrators, each with the LicenseAssignments page open
Admins == {"a1", "a2"}

\* LicenseAssignments mounted for a RAYN admin who selected org-9: the effect
\* on [selectedCustomer] has called loadCustomerLicenses, yet to answer
MountedAdmin == [mounted |-> TRUE, selectedCustomer |-> "org-9", customerLicenses |-> <<>>,
                 loads |-> 1, toast |-> Null]

\* the product_license_assignments rows of a license, as a bag
RowsOf(license) ==
    [r \in {x \in BagToSet(product_license_assignments) : x.license_id = license}
        |-> product_license_assignments[r]]

\* (license.product_license_assignments as any)?.length || 0
UsedSeats(license) == BagCardinality(RowsOf(license))

CustomerLicense(license) ==
    [id |-> license, seats |-> seats[license], used_seats |-> UsedSeats(license)]

\* the orders in which a select without order clause can list its rows
Orders(S) == {o \in [1..Cardinality(S) -> S] : \A i, j \in DOMAIN o : o[i] = o[j] => i = j}

\* loadCustomerLicenses: the select answers (ok) with the licenses of the
\* selected customer and their rows as they are now, or fails
LoadCustomerLicenses(a, ok) ==
    /\ admins[a].mounted
    /\ admins[a].loads > 0
    /\ IF admins[a].selectedCustomer # Null /\ ok
       THEN \E o \in Orders({l \in Licenses :
                       customer_product_licenses[l] = admins[a].selectedCustomer}) :
               admins' = [admins EXCEPT
                   ![a].customerLicenses = [i \in DOMAIN o |-> CustomerLicense(o[i])],
                   ![a].loads = @ - 1]
       ELSE admins' = [admins EXCEPT ![a].loads = @ - 1]
    /\ UNCHANGED <<stores, holder, debugRole, calls, toggle, activeTab, dashboard, seats>>

\* l.used_seats < l.seats
Available(l) == l.used_seats < l.seats

\* assignLicenses('user') with the employees checked; the insert succeeds (ok)
\* or fails
AssignLicenses(a, selectedEmployees, ok) ==
    LET customerLicenses == admins[a].customerLicenses
        available == SelectSeq(customerLicenses, Available)
        assignments == SetToBag({[user_id |-> e, access_level |-> "user",
                                  license_id |-> Head(available).id] :
                                 e \in selectedEmployees})
    IN  /\ admins[a].mounted
        /\ IF selectedEmployees = {}
           THEN /\ admins' = [admins EXCEPT ![a].toast = "No employees selected"]
                /\ UNCHANGED product_license_assignments
           ELSE IF customerLicenses = <<>>
           THEN /\ admins' = [admins EXCEPT ![a].toast = "No licenses available"]
                /\ UNCHANGED product_license_assignments
           ELSE IF available = <<>>
           THEN /\ admins' = [admins EXCEPT ![a].toast = "No available seats"]
                /\ UNCHANGED product_license_assignments
           ELSE IF ok
           THEN /\ BagCardinality(product_license_assignments)
                      + Cardinality(selectedEmployees) <= MaxAssigned
                /\ admins[a].loads < MaxLoads
                /\ product_license_assignments' =
                       product_license_assignments (+) assignments
                /\ admins' = [admins EXCEPT ![a].toast = "Success", ![a].loads = @ + 1]
           ELSE /\ admins' = [admins EXCEPT ![a].toast = "Error"]
                /\ UNCHANGED product_license_assignments
        /\ UNCHANGED <<user_roles, customer_product_licenses, customers, holder,
                       debugRole, calls, toggle, activeTab, dashboard, seats>>

\* revokeLicense(employeeId): the delete succeeds (ok) or fails
RevokeLicense(a, employeeId, ok) ==
    /\ admins[a].mounted
    /\ IF ok
       THEN /\ admins[a].loads < MaxLoads
            /\ product_license_assignments' =
                   [r \in {x \in BagToSet(product_license_assignments) :
                               x.user_id # employeeId}
                       |-> product_license_assignments[r]]
            /\ admins' = [admins EXCEPT ![a].toast = "Success", ![a].loads = @ + 1]
       ELSE /\ admins' = [admins EXCEPT ![a].toast = "Error"]
            /\ UNCHANGED product_license_assignments
    /\ UNCHANGED <<user_roles, customer_product_licenses, customers, holder,
                   debugRole, calls, toggle, activeTab, dashboard, seats>>

LoadAnswer == \E a \in Admins, ok \in BOOLEAN : LoadCustomerLicenses(a, ok)
Assign == \E a \in Admins, selected \in SUBSET Users, ok \in BOOLEAN :
              AssignLicenses(a, selected, ok)
Revoke == \E a \in Admins, e \in Users, ok \in BOOLEAN : RevokeLicense(a, e, ok)

\* both licenses belong to org-9, with any number of seats; no row is
\* assigned yet; both administrators have the page open
AssignInit ==
    /\ user_roles = {}
    /\ product_license_assignments = EmptyBag
    /\ customer_product_licenses = [l \in Licenses |-> "org-9"]
    /\ InitCustomers
    /\ InitHolder
    /\ InitDebug
    /\ call = NoCall
    /\ prev = NoCall
    /\ toggle = PlainToggle
    /\ activeTab = "license-assignments"
    /\ dashboard = NoDashboard
    /\ seats \in [Licenses -> 1..MaxSeats]
    /\ admins = [a \in Admins |-> MountedAdmin]

AssignNext ==
    \/ LoadAnswer
    \/ Assign
    \/ Revoke

AssignSpec == AssignInit /\ [][AssignNext]_vars

\* ------------------------------------------------------------- RoleGuard
RequiredRoles == {"admin", "moderator", "manager", "user"}

\* faulty variant: only the RAYN flag opens the admin gate
hasAccess_RaynOnly(requiredRole) ==
    CASE requiredRole = "admin" -> isRaynAdmin
      [] requiredRole = "moderator" -> isAdmin \/ isModerator
      [] requiredRole = "user" -> TRUE
      [] OTHER -> FALSE

\* RoleGuard: const hasAccess = (() => { switch (requiredRole) ... })()
hasAccess(requiredRole) ==
    CASE requiredRole = "admin" -> isAdmin
      [] requiredRole = "moderator" -> isAdmin \/ isModerator
      [] requiredRole = "user" -> TRUE
      [] OTHER -> FALSE

\* what RoleGuard renders: the loading placeholder, the fallback or the children
RoleGuard(requiredRole, showLoading) ==
    IF loading /\ showLoading THEN "loading"
    ELSE IF effectiveRole = NullRole THEN "fallback"
    ELSE IF ~hasAccess(requiredRole) THEN "fallback"
    ELSE "children"

\* AdminOnly, ModeratorOrHigher: RoleGuard with the default showLoading
AdminOnly == RoleGuard("admin", TRUE)
ModeratorOrHigher == RoleGuard("moderator", TRUE)

Next ==
    \/ Auth
    \/ RunEffect
    \/ Refetch
    \/ Settle
    \/ Preview

Spec == Init /\ [][Next]_vars

\* the store queries answer and React runs the pending effect: every
\* resolution in flight settles, every scheduled effect runs
LiveSpec == Spec /\ WF_vars(Settle) /\ WF_vars(RunEffect)

\* ======================================================================
\* Properties of getUserRole, over the call recorded by CallGetUserRole
\* (specification ResolverSpec)
\* ======================================================================
Called == call.userId # Null
Result == call.ret.value

\* the license of the first-found assignment has a row, owned by a customer
OwnerOf(license_id) ==
    IF license_id \in Licenses THEN customer_product_licenses[license_id] ELSE Null

\* the user_roles query of the call delivered the admin record
AdminRecordReturned == Called /\ QueryUserRoles(call.userId, call.fail.q1).data.role = "admin"

\* the call got an assignment row from the license-assignment query
AssignmentReturned ==
    /\ Called
    /\ call.fail.q1 # "throw"
    /\ ~AdminRecordReturned
    /\ call.fail.q2 = "ok"
    /\ call.first # NoAssignmentRow

IsDefault(d) ==
    /\ d.role = "user"
    /\ d.source = "default"
    /\ d.isRaynAdmin = FALSE
    /\ d.isClientAdmin = FALSE
    /\ d.customer_id = Null

\* role, source and flags as the assignment's access level determines them
FromAssignment(d, access_level) ==
    /\ d.role = access_level
    /\ d.source = "product_license_assignments"
    /\ d.isRaynAdmin = FALSE
    /\ d.isClientAdmin = (access_level = "admin")

\* user < manager < client admin < RAYN admin
Rank(d) ==
    IF d.isRaynAdmin THEN 3
    ELSE IF d.isClientAdmin THEN 2
    ELSE IF d.role = "manager" THEN 1
    ELSE 0

\* what the same call returns on the same data when no query fails
Unfailing == GetUserRole(call.userId, NoFailure, call.first).value

\* C2: whatever queries fail, and however, the descriptor returned grants no
\* more privilege than the one returned on the same data without failure
C2_FailSafe == Called => Rank(Result) <= Rank(Unfailing)

\* a failed call of a privileged user, answered with less than the unfailing one
C2_Witness == Called /\ call.fail # NoFailure /\ Rank(Result) < Rank(Unfailing)

\* C3: when the user_roles query returns an admin record the result is the
\* RAYN admin descriptor, whatever assignment rows the user has, and only
\* user_roles was queried
C3_PrimaryStoreWins ==
    AdminRecordReturned =>
        /\ ~call.ret.threw
        /\ Result.role = "admin"
        /\ Result.source = "user_roles"
        /\ Result.isRaynAdmin = TRUE
        /\ Result.isClientAdmin = FALSE
        /\ Result.customer_id = Null
        /\ call.ret.queried = <<"user_roles">>

\* an admin of user_roles who also holds a license assignment was resolved
C3_Witness == AdminRecordReturned /\ call.first # NoAssignmentRow

\* C4: without an admin row in user_roles, an assignment row with access level
\* a gives role a, source product_license_assignments, isRaynAdmin false and
\* isClientAdmin exactly when a = 'admin' (the queries answering, none throwing)
C4_AssignmentMapping ==
    (AssignmentReturned /\ call.userId \notin user_roles /\ call.fail.q3 # "throw") =>
        /\ FromAssignment(Result, call.first.access_level)
        /\ (call.first.access_level = "admin" => Result.isClientAdmin /\ Rank(Result) = 2)
        /\ (call.first.access_level = "manager" =>
                Result.role = "manager" /\ ~Result.isClientAdmin /\ ~Result.isRaynAdmin)

\* an assignment with access level 'admin' was resolved to a client admin
C4_Witness ==
    /\ AssignmentReturned
    /\ call.userId \notin user_roles
    /\ call.first.access_level = "admin"
    /\ Result.isClientAdmin

\* both queries answered record-not-found
NothingFound ==
    /\ Called
    /\ call.fail.q1 = "ok"
    /\ call.userId \notin user_roles
    /\ call.fail.q2 = "ok"
    /\ call.first = NoAssignmentRow

\* C5: with no row in either store the result is exactly the default descriptor
C5_Default == NothingFound => ~call.ret.threw /\ IsDefault(Result)

\* a user without rows was resolved
C5_Witness == NothingFound /\ Result.source = "default"

WellFormed(d) ==
    /\ d.role \in AccessLevels
    /\ d.source \in {"user_roles", "product_license_assignments", "default"}
    /\ d.isRaynAdmin \in BOOLEAN
    /\ d.isClientAdmin \in BOOLEAN
    /\ d.customer_id \in Customers \cup {Null}

\* C6: whatever fails, getUserRole does not throw and returns a well-formed
\* descriptor
C6_NeverThrows == Called => ~call.ret.threw /\ WellFormed(Result)

\* a call in which a query threw has returned
C6_Witness ==
    /\ Called
    /\ "throw" \in {call.fail.q1, call.fail.q2, call.fail.q3}
    /\ ~call.ret.threw

\* C7 as claimed: if the user_roles query fails in any way and the user has an
\* assignment row with access level a, the result is the assignment descriptor
\* for a
C7_AnyFailureProceeds ==
    (/\ Called
     /\ call.fail.q1 \in {"error", "throw"}
     /\ call.fail.q2 = "ok"
     /\ call.first # NoAssignmentRow
     /\ call.fail.q3 = "ok") =>
        FromAssignment(Result, call.first.access_level)

\* C7 as amended: an error response of the user_roles query is treated like
\* record-not-found (the assignment descriptor is returned if an assignment is
\* found and the organization lookup does not throw, the default if the
\* assignment query finds nothing or answers with an error), and a thrown
\* exception of the user_roles query ends in the default descriptor without the
\* license-assignment store being consulted
C7_ErrorResponseProceeds ==
    Called =>
        /\ (/\ call.fail.q1 = "error"
            /\ call.fail.q2 = "ok"
            /\ call.first # NoAssignmentRow
            /\ call.fail.q3 # "throw") =>
               FromAssignment(Result, call.first.access_level)
        /\ (/\ call.fail.q1 = "error"
            /\ (call.fail.q2 = "error" \/ call.first = NoAssignmentRow)) =>
               IsDefault(Result)
        /\ call.fail.q1 = "throw" =>
               IsDefault(Result) /\ call.ret.queried = <<"user_roles">>

\* the user_roles query of an admin answered with an error and the call went
\* on to the assignment
C7_Witness ==
    /\ Called
    /\ call.fail.q1 = "error"
    /\ call.userId \in user_roles
    /\ call.fail.q2 = "ok"
    /\ call.first # NoAssignmentRow
    /\ Result.source = "product_license_assignments"

\* the secondary lookup of the license's organization was made and failed
LookupMade == AssignmentReturned /\ call.first.license_id # Null
LookupNoRow == call.fail.q3 = "ok" /\ OwnerOf(call.first.license_id) = Null

\* C8 as claimed: if the secondary lookup fails in any way (no row, error
\* response, thrown exception) the result still has role, source and flags of
\* the assignment, with customer_id absent
C8_AnyLookupFailure ==
    (LookupMade /\ (LookupNoRow \/ call.fail.q3 \in {"error", "throw"})) =>
        /\ FromAssignment(Result, call.first.access_level)
        /\ Result.customer_id = Null

\* C8 as amended: if the secondary lookup finds no row or answers with an error
\* response, the result has role, source and flags of the assignment, with
\* customer_id absent; if it throws, the result is the default descriptor
C8_LookupFailure ==
    LookupMade =>
        /\ (LookupNoRow \/ call.fail.q3 = "error") =>
               /\ FromAssignment(Result, call.first.access_level)
               /\ Result.customer_id = Null
        /\ call.fail.q3 = "throw" => IsDefault(Result)

\* an assignment whose license lookup failed without throwing was resolved
C8_Witness ==
    /\ LookupMade
    /\ (LookupNoRow \/ call.fail.q3 = "error")
    /\ Result.source = "product_license_assignments"
    /\ Result.customer_id = Null

\* C9: when the license of the assignment belongs to organization O and the
\* secondary lookup succeeds, customer_id = O
C9_ScopeResolution ==
    (LookupMade /\ call.fail.q3 = "ok" /\ OwnerOf(call.first.license_id) # Null) =>
        /\ FromAssignment(Result, call.first.access_level)
        /\ Result.customer_id = OwnerOf(call.first.license_id)

\* access level 'user' on license L2 of org-9, while L1 belongs to org-7
C9_Witness ==
    /\ LookupMade
    /\ call.fail.q3 = "ok"
    /\ call.first = [access_level |-> "user", license_id |-> "L2"]
    /\ customer_product_licenses = [l \in Licenses |-> IF l = "L2" THEN "org-9" ELSE "org-7"]
    /\ Result = Descriptor("user", "product_license_assignments", FALSE, FALSE, "org-9")

\* ======================================================================
\* Properties of the session holder (specification Spec)
\* ======================================================================
AllSettled == \A i \in DOMAIN fetches : fetches[i].settled

\* C1: two resolutions for the current user, started one after the other, have
\* both settled and nothing was started since: the held descriptor is the
\* result of the later one
C1_LastWriterWins ==
    (/\ Len(fetches) >= 2
     /\ AllSettled
     /\ ~effectPending
     /\ fetches[Len(fetches)].userId = user
     /\ fetches[Len(fetches) - 1].userId = user) =>
        userRole = fetches[Len(fetches)].result

\* C10: with no user signed in and the sign-out processed, the held resolved
\* descriptor is absent
C10_SignOutDiscards == (user = Null /\ ~effectPending) => userRole = NullRole

\* ------------------------------------------ descriptors of getUserRole
\* C17: the descriptor returned has isRaynAdmin exactly when it comes from
\* user_roles with role admin, isClientAdmin exactly when it comes from
\* product_license_assignments with role admin, never both flags, and no
\* customer_id when it comes from user_roles
C17_AdminFlags ==
    Called =>
        /\ Result.isRaynAdmin <=> (Result.source = "user_roles" /\ Result.role = "admin")
        /\ Result.isClientAdmin <=>
               (Result.source = "product_license_assignments" /\ Result.role = "admin")
        /\ ~(Result.isRaynAdmin /\ Result.isClientAdmin)
        /\ Result.source = "user_roles" => Result.customer_id = Null

\* a user holding an admin row, whose user_roles query answered an error, was
\* resolved from an 'admin' assignment
C17_Witness ==
    /\ Called
    /\ call.userId \in user_roles
    /\ call.fail.q1 = "error"
    /\ Result.source = "product_license_assignments"
    /\ Result.isClientAdmin
    /\ ~Result.isRaynAdmin

\* C18: a descriptor returned with source default has role user, no customer_id
\* and both admin flags false, on the error path too
C18_DefaultSource ==
    (Called /\ Result.source = "default") =>
        /\ Result.role = "user"
        /\ Result.customer_id = Null
        /\ ~Result.isRaynAdmin
        /\ ~Result.isClientAdmin

\* the assignment query threw for a user holding an 'admin' assignment and
\* the catch block answered
C18_Witness ==
    /\ Called
    /\ call.userId \notin user_roles
    /\ call.fail.q2 = "throw"
    /\ call.first.access_level = "admin"
    /\ Result.source = "default"

\* C19: a customer_id carried by the descriptor returned names a customer that
\* is active
C19_ScopeActive ==
    (Called /\ Result.customer_id # Null) => customers[Result.customer_id]

\* C20: a second call for the same user on the same stores returns the
\* descriptor the first call returned
C20_Idempotent == prev # NoCall => call.ret.value = prev.ret.value

\* ------------------------------------------------------ debug override
\* C11 as stated: with a debug role set, refetch starts no resolution and
\* leaves the held descriptor, the loading flag and the error field unchanged
C11_RefetchNoOp ==
    [][(isDebugMode /\ Refetch) => UNCHANGED <<userRole, loading, error, fetches>>]_vars

\* what refetch does for a signed-in user
RefetchStarts ==
    /\ Len(fetches') = Len(fetches) + 1
    /\ fetches'[Len(fetches')].userId = user
    /\ ~fetches'[Len(fetches')].settled
    /\ loading'
    /\ error' = Null
    /\ userRole' = userRole

\* C11: with a debug role set, refetch still starts a resolution for the
\* signed-in user (loading set, error cleared, the held descriptor kept until
\* the answer); the debug role, the descriptor exposed and the actual resolved
\* descriptor are unchanged by it
C11_RefetchUnderOverride ==
    [][(isDebugMode /\ Refetch) =>
          /\ debugRole' = debugRole
          /\ effectiveRole' = effectiveRole
          /\ actualUserRole' = actualUserRole
          /\ user # Null => RefetchStarts]_vars

\* refetch was called with a debug role set and a descriptor held, and its
\* resolution is in flight
C11_Witness ==
    /\ refetched
    /\ isDebugMode
    /\ user # Null
    /\ userRole # NullRole
    /\ loading
    /\ ~fetches[Len(fetches)].settled

\* the flags of a descriptor, as useUserRole derives them
Flags(d) ==
    [isAdmin |-> d.isRaynAdmin \/ d.isClientAdmin,
     isRaynAdmin |-> d.isRaynAdmin,
     isClientAdmin |-> d.isClientAdmin,
     isManager |-> d.role = "manager",
     isUser |-> d.role = "user"]

\* with a debug role set, the descriptor and the flags exposed are its own
ExposesDebugRole ==
    isDebugMode =>
        /\ effectiveRole = debugRole
        /\ [isAdmin |-> isAdmin, isRaynAdmin |-> isRaynAdmin,
            isClientAdmin |-> isClientAdmin, isManager |-> isManager,
            isUser |-> isUser] = Flags(debugRole)

\* setting or clearing the debug role keeps the resolved descriptors, and
\* clearing it exposes the held one
DebugRoleFrame ==
    debugRole' # debugRole =>
        /\ actualUserRole' = actualUserRole
        /\ userRole' = userRole
        /\ debugRole' = NullRole => effectiveRole' = userRole

\* C12: while a debug role is set the descriptor and flags exposed by
\* useUserRole are those of the debug role; setting or clearing it leaves
\* actualUserRole unchanged and clearing it exposes the resolved descriptor
C12_OverrideReplaces == []ExposesDebugRole /\ [][DebugRoleFrame]_vars

\* a resolved RAYN admin previews as a role that is no administrator
C12_Witness ==
    /\ isDebugMode
    /\ userRole.isRaynAdmin
    /\ actualUserRole = userRole
    /\ effectiveRole # userRole
    /\ ~isAdmin

\* C13: a debug role is set only in a session whose actual resolved descriptor
\* is an administrator; otherwise the descriptor exposed is the resolved one
C13_OverrideGated ==
    ~(actualUserRole.isRaynAdmin \/ actualUserRole.isClientAdmin) =>
        /\ ~isDebugMode
        /\ effectiveRole = userRole

\* ------------------------------------------------------------ the guard
\* a descriptor is seen by the guard and no resolution is in flight
Held == AllSettled /\ ~loading /\ effectiveRole # NullRole

\* C14: with a descriptor held, the guard asked for 'manager' or 'moderator'
\* renders the children exactly for an administrator or a manager, and the
\* fallback otherwise
C14_ManagerGate ==
    Held =>
        /\ \A requiredRole \in {"manager", "moderator"}, showLoading \in BOOLEAN :
               RoleGuard(requiredRole, showLoading) =
                   IF isAdmin \/ isManager THEN "children" ELSE "fallback"
        /\ ModeratorOrHigher = IF isAdmin \/ isManager THEN "children" ELSE "fallback"

\* C15: with a descriptor held, the guard asked for 'admin' renders the
\* children exactly when isRaynAdmin or isClientAdmin, the fallback otherwise;
\* a descriptor from user_roles is shown the children
C15_AdminGate ==
    Held =>
        /\ \A showLoading \in BOOLEAN :
               RoleGuard("admin", showLoading) =
                   IF isRaynAdmin \/ isClientAdmin THEN "children" ELSE "fallback"
        /\ AdminOnly = IF isRaynAdmin \/ isClientAdmin THEN "children" ELSE "fallback"
        /\ effectiveRole.source = "user_roles" => AdminOnly = "children"

\* a resolved RAYN admin, no debug role set, is shown the children
C15_Witness ==
    /\ Held
    /\ ~isDebugMode
    /\ user # Null
    /\ userRole = RaynAdminRole
    /\ AdminOnly = "children"

\* C16: without a descriptor the guard renders the placeholder when loading
\* and showLoading, the fallback otherwise, never the children; and it renders
\* the placeholder only without a descriptor
C16_NoDescriptor ==
    \A requiredRole \in RequiredRoles, showLoading \in BOOLEAN :
        /\ effectiveRole = NullRole =>
               RoleGuard(requiredRole, showLoading) =
                   IF loading /\ showLoading THEN "loading" ELSE "fallback"
        /\ RoleGuard(requiredRole, showLoading) = "loading" => effectiveRole = NullRole

\* ------------------------------------------------- legacy against newer
\* the legacy resolver and the newer one agree on the call: same role and
\* source, same answer of isAdmin
Agree ==
    /\ LegacyGetUserRole(call.userId, call.fail, call.first) =
           LegacyRole(Result.role, Result.source)
    /\ LegacyIsAdmin(call.userId, call.fail, call.first) =
           IsAdminOf(call.userId, call.fail, call.first)

\* the call issued the organization lookup and the lookup threw
LookupThrew == Called /\ Len(call.ret.queried) = 3 /\ call.fail.q3 = "throw"

\* C23 as stated: for every user, store content and failure pattern the legacy
\* resolver returns the role and source the newer one returns, and the two
\* isAdmin agree
C23_LegacyRestriction == Called => Agree

\* C23: the two resolvers agree on role, source and isAdmin unless the
\* organization lookup throws; then the newer one returns the default
\* descriptor and the legacy one, which makes no lookup, the assignment's role
C23_LegacyAgrees ==
    Called =>
        IF LookupThrew
        THEN /\ IsDefault(Result)
             /\ LegacyGetUserRole(call.userId, call.fail, call.first) =
                    LegacyRole(call.first.access_level, "product_license_assignments")
        ELSE Agree

\* both resolvers answered from an assignment whose organization lookup
\* answered an error
C23_Witness ==
    /\ Called
    /\ Len(call.ret.queried) = 3
    /\ call.fail.q3 = "error"
    /\ Result.source = "product_license_assignments"
    /\ Result.role = "admin"
    /\ Agree

\* ------------------------------------------------- the holder, continued
\* a resolution started for the current user has not answered yet
InFlight == \E i \in DOMAIN fetches : ~fetches[i].settled /\ fetches[i].userId = user

\* C21: while a resolution for the current user is in flight, the loading
\* flag is true
C21_LoadingWhileResolving == (~effectPending /\ InFlight) => loading

\* the descriptors getUserRole can return for user u on the present stores
ResolvedFor(u) == {outcome.value : outcome \in Outcomes(u)}

\* C22: once the user identifier stays u and its effect has run, the holder
\* eventually rests with loading false and a descriptor resolved for u
C22_Settles ==
    \A u \in Users :
        <>[](user = u /\ ~effectPending) =>
            <>[](~loading /\ userRole \in ResolvedFor(u))

\* the part of C22 about termination alone: the holder eventually rests with
\* loading false and some descriptor held
SettlesWithSomeDescriptor ==
    \A u \in Users :
        <>[](user = u /\ ~effectPending) => <>[](~loading /\ userRole # NullRole)

\* C24: with no debug role set, the descriptor exposed is absent or the result
\* of a resolution started for the current user
C24_OwnDescriptor ==
    (~isDebugMode /\ ~effectPending) =>
        \/ effectiveRole = NullRole
        \/ \E i \in DOMAIN fetches :
               /\ fetches[i].userId = user
               /\ fetches[i].settled
               /\ fetches[i].result = effectiveRole

DataModelInvariants(d) ==
    /\ ~(d.isRaynAdmin /\ d.isClientAdmin)
    /\ d.source = "default" =>
           /\ d.role = "user"
           /\ d.customer_id = Null
           /\ ~d.isRaynAdmin
           /\ ~d.isClientAdmin

\* C26: the descriptor exposed by useUserRole, resolved or chosen through
\* either DebugRoleToggle, satisfies the invariants of the data model
C26_ExposedInvariants == effectiveRole # NullRole => DataModelInvariants(effectiveRole)

\* C27: with a debug role set the descriptor exposed has isRaynAdmin false and
\* a source other than user_roles; isRaynAdmin is exposed true only without a
\* debug role and with the resolved descriptor that of a user_roles admin
C27_NoRaynOverride ==
    /\ isDebugMode => (~isRaynAdmin /\ effectiveRole.source # "user_roles")
    /\ isRaynAdmin => (~isDebugMode /\ actualUserRole = RaynAdminRole)

\* a resolved RAYN admin previews as client admin of a selected organization
C27_Witness ==
    /\ actualUserRole = RaynAdminRole
    /\ toggle.variant = "customers"
    /\ toggle.selectedCustomer = "org-9"
    /\ debugRole.isClientAdmin
    /\ effectiveRole.customer_id = "org-9"
    /\ ~isRaynAdmin

\* ------------------------------------------------- license assignments
\* C28 as stated: the tab is shown and the management content rendered only
\* for an administrator while the role is not loading; otherwise the tab is
\* hidden and the component shows 'Access Restricted' or the loading text
C28_AdminsOnlyNotLoading ==
    ~((isRaynAdmin \/ isClientAdmin) /\ ~loading) =>
        /\ ~TabShown
        /\ LicenseAssignments \in {"restricted", "loading"}

\* C28: the tab is shown exactly for an administrator, loading or not; the
\* management content is rendered exactly for an administrator while the
\* role is not loading, 'Access Restricted' exactly for a non-administrator
\* while it is not loading; a selected tab renders the component
C28_AdminsOnly ==
    /\ TabShown <=> (isRaynAdmin \/ isClientAdmin)
    /\ LicenseAssignments = "content" <=> ((isRaynAdmin \/ isClientAdmin) /\ ~loading)
    /\ LicenseAssignments = "restricted" <=> (~(isRaynAdmin \/ isClientAdmin) /\ ~loading)
    /\ activeTab = "license-assignments" => renderContent = LicenseAssignments

\* the tab was selected by an administrator and the role exposed is no
\* administrator's any more: the tab is hidden, the component restricted
C28_Witness ==
    /\ user # Null
    /\ activeTab = "license-assignments"
    /\ ~loading
    /\ effectiveRole # NullRole
    /\ ~isAdmin
    /\ ~TabShown
    /\ renderContent = "restricted"

\* ------------------------------------------------------ client dashboard
\* C29: ClientDashboard, mounted for a client admin, always leaves its
\* loading state
C29_LeavesLoading == dashboard.loading ~> ~dashboard.loading

\* ------------------------------------------------------------ seat limit
\* C30: after any sequence of assignLicenses and revokeLicense operations
\* of the two administrators, no license has more
\* product_license_assignments rows than seats
C30_SeatLimit == \A l \in Licenses : UsedSeats(l) <= seats[l]
====
